---------------------------- MODULE Spec2Model ----------------------------
(***************************************************************************)
(* Verification model of the LRR pattern scanners:                         *)
(*   lrr_patterns.py            the pattern catalog                     *)
(*   tplrr_finder.py            one gzipped file, catalog pattern, cap     *)
(*   ncbi_lrr_finder.py         batch over *.protein.faa.gz, worker pool   *)
(*   bspa_lrr_analyzer.py       one plain file, caller-supplied regex      *)
(*   revised_tplrr_finder.py    one plain file, fixed revised regex        *)
(*                                                                         *)
(* Text (a regex, a residue sequence, a report cell) is a sequence of      *)
(* one-character strings.  Python's None is the empty tuple, a present     *)
(* optional value x is the one-element tuple <<x>>.                        *)
(***************************************************************************)
EXTENDS Integers, Sequences, FiniteSets, TLC

None == <<>>
Some(x) == <<x>>

(***************************************************************************)
(* Bounds of the model.                                                    *)
(***************************************************************************)
MaxRecords == 2
MaxFiles == 2
MaxWorkers == 2
MaxFaults == 1
MaxCalls == 3

(***************************************************************************)
(* Residue alphabet of the modelled inputs.  "." in a regex matches every  *)
(* character of a sequence (sequences hold no newline).                    *)
(***************************************************************************)
Alphabet == {"A","C","D","F","G","I","L","M","N","P","T","V","W","X","Y"}
Digit == ("0" :> 0) @@ ("1" :> 1) @@ ("2" :> 2) @@ ("3" :> 3) @@ ("4" :> 4)
         @@ ("5" :> 5) @@ ("6" :> 6) @@ ("7" :> 7) @@ ("8" :> 8) @@ ("9" :> 9)

(***************************************************************************)
(* The catalog.  ncbi_lrr_finder.py carries its own, textually equal copy. *)
(***************************************************************************)
LRR_PATTERNS ==
  ("TpLRR" :> [pattern |-> <<"(","?",":","C","|","N",")",".","{","2","}","L",".","{","2","}","I",".","{","1","}","L",".","{","3","}","L",".","{","2","}","I",".","{","3","}","A","F">>,
               length |-> 21, description |-> "TpLRR pattern (21 AA)"])
  @@ ("RI-like" :> [pattern |-> <<".","{","3","}","L",".","{","2","}","L",".","{","1","}","L",".","{","2","}","[","N","C","]",".","{","1","}","L",".","{","3","}","G","[","G","A","I","V","L","M","F","P","W","C","]",".","{","2","}","L",".","{","2","}","[","G","A","I","V","L","M","F","P","W","C","]","L",".","{","2","}">>,
               length |-> 28, description |-> "RI-like pattern (28 AA)"])
  @@ ("SDS22-like" :> [pattern |-> <<"L",".","{","2","}","L",".","{","2","}","L",".","{","1","}","L",".","{","2","}","N",".","{","1","}","I",".","{","2","}","I",".","{","2","}","L",".","{","2","}">>,
               length |-> 22, description |-> "SDS22-like pattern (22 AA)"])
  @@ ("Cysteine-containing" :> [pattern |-> <<"C",".","{","2","}","L",".","{","2","}","L",".","{","1","}","L",".","{","2","}","C",".","{","2","}","I","T","D",".","{","2","}","[","G","A","I","V","L","M","F","P","W","C","]",".","{","2","}","L","A",".","{","2","}">>,
               length |-> 22, description |-> "Cysteine-containing pattern (22 AA)"])
  @@ ("Bacterial" :> [pattern |-> <<"P",".","{","2","}","L",".","{","2","}","L",".","{","1","}","V",".","{","2","}","N",".","{","1","}","L",".","{","2","}","L","P",".","{","1","}","L">>,
               length |-> 20, description |-> "Bacterial pattern (20 AA)"])
  @@ ("Typical" :> [pattern |-> <<"L",".","{","2","}","L",".","{","2","}","L",".","{","1","}","L",".","{","2","}","N",".","{","1","}","L",".","{","2","}","L","P",".","{","2","}","[","G","A","I","V","L","M","F","P","W","C","]","F",".","{","2","}">>,
               length |-> 24, description |-> "Typical LRR pattern"])
  @@ ("Plant-specific" :> [pattern |-> <<"L",".","{","2","}","L",".","{","2","}","L",".","{","1","}","L",".","{","2","}","N",".","{","1","}","L",".","{","3","}","I","P",".","{","2","}","L","G",".","{","1","}">>,
               length |-> 22, description |-> "Plant-specific pattern (22 AA)"])

NCBI_LRR_PATTERNS == LRR_PATTERNS

BSPA_DEFAULT_PATTERN ==
  <<"C",".","{","2","}","L",".","{","2","}","I",".","{","1","}","L",".","{","3","}","L",".","{","2","}","I",".","{","3","}","A","F">>

REVISED_PATTERN ==
  <<"[","C","N","]",".","{","2","}","[","L","V","I","]",".","{","2","}","[","L","V","I","]",".","{","1","}","[","L","V","I","]",".","{","3","}","[","L","V","I","]",".","{","2","}","[","L","V","I","]",".","{","3","}","A","F">>

BSPA_PATTERN_LENGTH == 21
REVISED_PATTERN_LENGTH == 21

(***************************************************************************)
(* re.compile for the motif grammar the scanners use: a literal, a         *)
(* bracket set, the group (?:X|Y), "." and ".{n}".  The compiled pattern   *)
(* is a sequence of positions, each the set of characters it accepts.      *)
(***************************************************************************)
RECURSIVE IndexOf(_, _, _)
IndexOf(p, c, i) == IF i > Len(p) \/ p[i] = c THEN i ELSE IndexOf(p, c, i + 1)

RECURSIVE ReadInt(_, _, _, _)
ReadInt(p, i, j, acc) ==
  IF i >= j THEN acc ELSE ReadInt(p, i + 1, j, 10 * acc + Digit[p[i]])

RECURSIVE CompileFrom(_, _)
CompileFrom(p, i) ==
  IF i > Len(p) THEN <<>>
  ELSE IF p[i] = "." THEN
         IF i < Len(p) /\ p[i + 1] = "{"
         THEN LET j == IndexOf(p, "}", i + 2)
                  n == ReadInt(p, i + 2, j, 0)
              IN  [k \in 1..n |-> Alphabet] \o CompileFrom(p, j + 1)
         ELSE <<Alphabet>> \o CompileFrom(p, i + 1)
  ELSE IF p[i] = "[" THEN
         LET j == IndexOf(p, "]", i + 1)
         IN  <<{p[k] : k \in (i + 1)..(j - 1)}>> \o CompileFrom(p, j + 1)
  ELSE IF p[i] = "(" THEN
         LET j == IndexOf(p, ")", i + 1)
         IN  <<{p[k] : k \in (i + 3)..(j - 1)} \ {"|"}>> \o CompileFrom(p, j + 1)
  ELSE <<{p[i]}>> \o CompileFrom(p, i + 1)

re_compile(p) == CompileFrom(p, 1)

(***************************************************************************)
(* pattern.findall(sequence) for a pattern without capturing groups: the   *)
(* 0-based start offsets of the reported matches, and the matched text.    *)
(***************************************************************************)
MatchesAt(toks, s, p) ==
  /\ p + Len(toks) <= Len(s)
  /\ \A i \in 1..Len(toks) : s[p + i] \in toks[i]

\* A scan that resumes one position after the start of a match.
RECURSIVE ScanFromOverlapping(_, _, _)
ScanFromOverlapping(toks, s, p) ==
  IF p > Len(s) THEN <<>>
  ELSE IF MatchesAt(toks, s, p)
       THEN <<p>> \o ScanFromOverlapping(toks, s, p + 1)
       ELSE ScanFromOverlapping(toks, s, p + 1)

RECURSIVE ScanFrom(_, _, _)
ScanFrom(toks, s, p) ==
  IF p > Len(s) THEN <<>>
  ELSE IF MatchesAt(toks, s, p)
       THEN <<p>> \o ScanFrom(toks, s, IF Len(toks) = 0 THEN p + 1 ELSE p + Len(toks))
       ELSE ScanFrom(toks, s, p + 1)

match_starts(toks, s) == ScanFrom(toks, s, 0)

matched_text(toks, s, st) ==
  [i \in 1..Len(st) |-> SubSeq(s, st[i] + 1, st[i] + Len(toks))]

findall(toks, s) == matched_text(toks, s, match_starts(toks, s))

(***************************************************************************)
(* " ".join(list) and sum of a list of lengths.                            *)
(***************************************************************************)
RECURSIVE join(_)
join(ms) ==
  IF Len(ms) = 0 THEN <<>>
  ELSE IF Len(ms) = 1 THEN ms[1]
  ELSE ms[1] \o <<" ">> \o join(Tail(ms))

RECURSIVE SumLen(_)
SumLen(ms) == IF Len(ms) = 0 THEN 0 ELSE Len(ms[1]) + SumLen(Tail(ms))

(***************************************************************************)
(* lrr_data is a Python dict: a sequence of key/value pairs in the order   *)
(* the keys were first inserted; assigning an existing key replaces its    *)
(* value in place.                                                         *)
(***************************************************************************)
DictKeys(d) == {d[i].key : i \in 1..Len(d)}
DictGet(d, k) == d[CHOOSE i \in 1..Len(d) : d[i].key = k].val
DictSet(d, k, v) ==
  IF k \in DictKeys(d)
  THEN [i \in 1..Len(d) |-> IF d[i].key = k THEN [key |-> k, val |-> v] ELSE d[i]]
  ELSE Append(d, [key |-> k, val |-> v])

LrrEntry(matches, pattern_length, seq) ==
  [count |-> Len(matches),
   total_lrr_length |-> Len(matches) * pattern_length,
   total_length |-> Len(seq),
   patterns |-> join(matches)]

(***************************************************************************)
(* Inputs of the modelled runs.                                            *)
(***************************************************************************)
Scanners == {"tplrr", "ncbi", "bspa", "revised"}
PatternNames == DOMAIN LRR_PATTERNS
UnknownName == "Bogus"
CustomPatterns == {<<"A", ".", "{", "1", "}", "A">>}
CapValues == {0, 1, 2, 3}
Ids == {"a", "b"}

\* One instance of a compiled pattern: "X" at a wildcard, a member of the
\* set elsewhere.
Inst(toks) ==
  [i \in 1..Len(toks) |-> IF toks[i] = Alphabet THEN "X" ELSE CHOOSE c \in toks[i] : TRUE]

\* Two TpLRR occurrences 9 residues apart.
OverlapSeq ==
  <<"C","X","X","L","X","X","I","X","L">>
  \o <<"C","X","X","L","X","X","I","X","L","X","A","F","L","X","X","I","X","X","X","A","F">>

SeqPool(toks) ==
  LET I == Inst(toks)
  IN  { <<"X","X">>,
        <<"X","X">> \o I \o <<"Y","Y","Y","Y">>,
        I \o <<"X">> \o I,
        OverlapSeq }

FilePool(toks) ==
  UNION { [1..n -> [id : Ids, seq : SeqPool(toks)]] : n \in 0..MaxRecords }

VARIABLES
  scanner,          \* which script's find_lrr_patterns runs
  pattern_name,     \* --pattern of tplrr_finder / ncbi_lrr_finder
  pattern_str,      \* pattern_str of bspa_lrr_analyzer (None: the default)
  max_sequences,    \* --max-sequences of tplrr_finder (None: not given)
  local,            \* --local of tplrr_finder
  file_kind,        \* "ok", "missing" or "notgzip"
  records,          \* the records SeqIO.parse yields for the file
  pc,               \* position of the run
  processed_count,
  lrr_data,
  last,             \* the record just examined, its match offsets and matches
  downloaded,       \* download_file has fetched the input
  opened,           \* the input file has been opened
  output,           \* the report written by save_results (None: not written)
  error,            \* the exception that ended the run ("" while none)
  exit_status,      \* None while running
  folder,           \* the files below the folder given to ncbi_lrr_finder
  parallel,         \* --parallel
  max_workers,      \* --max-workers
  output_dir,       \* --output-dir (None: not given)
  faa_gz_files,     \* the list get_faa_gz_files returned
  bpc,              \* position of ncbi_lrr_finder's main
  queue_head,       \* index of the next file not yet handed to process_file
  workers,          \* per process: the file it handles, where it is, lines written
  result,           \* per file: "pending", "running", "ok", "none" or "broken"
  fs,               \* the output files: path -> lines
  pool_broken,      \* a worker process died
  faults,           \* per file: the fault injected while it was handled
  stopped,          \* the main process has received a user interrupt
  catalog,          \* lrr_patterns.LRR_PATTERNS in a session that imports the module
  json_files,       \* the JSON files: path -> text
  loaded,           \* what load_patterns_from_file last returned, from where, and
                    \* whether save_patterns_to_file had written that file
  got,              \* what get_compiled_pattern last returned
  cat_error,        \* the exception of the session's last call ("" when none)
  saved,            \* the paths save_patterns_to_file has written
  calls             \* number of calls made in the session

scanVars == <<scanner, pattern_name, pattern_str, max_sequences, local, file_kind,
              records, pc, processed_count, lrr_data, last, downloaded, opened,
              output, error, exit_status>>

batchVars == <<folder, parallel, max_workers, output_dir, faa_gz_files, bpc, queue_head,
               workers, result, fs, pool_broken, faults, stopped>>

catalogVars == <<catalog, json_files, loaded, got, cat_error, saved, calls>>

vars == <<scanVars, batchVars, catalogVars>>

NoLast == [id |-> "", sequence |-> <<>>, starts |-> <<>>, pattern_matches |-> <<>>]

\* The multiplier the run reports with, and the pattern it compiles.
PatternLength ==
  CASE scanner = "tplrr" -> LRR_PATTERNS[pattern_name].length
    [] scanner = "ncbi" -> NCBI_LRR_PATTERNS[pattern_name].length
    [] scanner = "bspa" -> BSPA_PATTERN_LENGTH
    [] OTHER -> REVISED_PATTERN_LENGTH

KnownPattern == scanner \in {"bspa", "revised"} \/ pattern_name \in PatternNames

\* The catalog's and the fixed patterns' compiled forms.
COMPILED == [n \in PatternNames |-> re_compile(LRR_PATTERNS[n].pattern)]
NCBI_COMPILED == [n \in PatternNames |-> re_compile(NCBI_LRR_PATTERNS[n].pattern)]
BSPA_DEFAULT_COMPILED == re_compile(BSPA_DEFAULT_PATTERN)
REVISED_COMPILED == re_compile(REVISED_PATTERN)

Compiled ==
  CASE scanner = "tplrr" -> COMPILED[pattern_name]
    [] scanner = "ncbi" -> NCBI_COMPILED[pattern_name]
    [] scanner = "bspa" -> IF pattern_str = None THEN BSPA_DEFAULT_COMPILED
                           ELSE re_compile(pattern_str[1])
    [] OTHER -> REVISED_COMPILED

PoolPattern == IF KnownPattern THEN Compiled ELSE COMPILED["TpLRR"]

IdleWorker == [file |-> 0, phase |-> "idle", off |-> 0]

\* ncbi_lrr_finder's main is not running.
BatchIdle ==
  /\ folder = {}
  /\ parallel = FALSE
  /\ max_workers = 1
  /\ output_dir = None
  /\ faa_gz_files = <<>>
  /\ bpc = "off"
  /\ queue_head = 1
  /\ workers = [w \in 0..MaxWorkers |-> IdleWorker]
  /\ result = <<>>
  /\ fs = <<>>
  /\ pool_broken = FALSE
  /\ faults = <<>>
  /\ stopped = FALSE

\* No catalog session is running.
CatalogIdle ==
  /\ catalog = LRR_PATTERNS
  /\ json_files = <<>>
  /\ loaded = None
  /\ got = None
  /\ cat_error = ""
  /\ saved = {}
  /\ calls = 0

ScanInit ==
  /\ scanner \in Scanners
  /\ pattern_name \in (IF scanner \in {"tplrr", "ncbi"}
                       THEN PatternNames \cup {UnknownName} ELSE {""})
  /\ pattern_str \in (IF scanner = "bspa"
                      THEN {None} \cup {Some(c) : c \in CustomPatterns} ELSE {None})
  /\ max_sequences \in (IF scanner = "tplrr"
                        THEN {None} \cup {Some(n) : n \in CapValues} ELSE {None})
  /\ local \in (IF scanner = "tplrr" THEN BOOLEAN ELSE {TRUE})
  /\ file_kind \in (IF local THEN {"ok", "missing", "notgzip"} ELSE {"ok", "notgzip"})
  /\ records \in (IF file_kind = "ok" THEN FilePool(PoolPattern) ELSE {<<>>})
  /\ pc = (IF scanner = "tplrr" THEN "main" ELSE "find")
  /\ processed_count = 0
  /\ lrr_data = <<>>
  /\ last = NoLast
  /\ downloaded = FALSE
  /\ opened = FALSE
  /\ output = None
  /\ error = ""
  /\ exit_status = None
  /\ BatchIdle

Raise(e) ==
  /\ pc' = "failed"
  /\ error' = e
  /\ exit_status' = Some(1)

(***************************************************************************)
(* tplrr_finder.py                                                         *)
(***************************************************************************)
\* main: fetch the input (download_file, or the --local existence check).
TplrrMainInput ==
  /\ pc = "main"
  /\ scanner = "tplrr"
  /\ IF ~local
     THEN \E ok \in BOOLEAN :
            IF ok
            THEN /\ downloaded' = TRUE
                 /\ pc' = "find"
                 /\ UNCHANGED <<error, exit_status>>
            ELSE /\ Raise("DownloadError")
                 /\ UNCHANGED downloaded
     ELSE /\ IF file_kind = "missing"
             THEN Raise("FileNotFoundError")
             ELSE pc' = "find" /\ UNCHANGED <<error, exit_status>>
          /\ UNCHANGED downloaded
  /\ UNCHANGED <<scanner, pattern_name, pattern_str, max_sequences, local, file_kind,
                 records, processed_count, lrr_data, last, opened, output>>
  /\ UNCHANGED <<batchVars, catalogVars>>

\* get_compiled_pattern: is the name a key of the catalog.
get_compiled_pattern_ok(name) == name \in DOMAIN LRR_PATTERNS

\* find_lrr_patterns up to the first record: pattern lookup, isfile, gzip.open.
TplrrFindEnter ==
  /\ pc = "find"
  /\ scanner = "tplrr"
  /\ IF ~get_compiled_pattern_ok(pattern_name)
     THEN Raise("UnknownPattern") /\ UNCHANGED opened
     ELSE IF file_kind = "missing"
     THEN Raise("FileNotFoundError") /\ UNCHANGED opened
     ELSE /\ opened' = TRUE
          /\ IF file_kind = "notgzip"
             THEN Raise("BadGzipFile")
             ELSE pc' = "loop" /\ UNCHANGED <<error, exit_status>>
  /\ UNCHANGED <<scanner, pattern_name, pattern_str, max_sequences, local, file_kind,
                 records, processed_count, lrr_data, last, downloaded, output>>
  /\ UNCHANGED <<batchVars, catalogVars>>

\* The truth value of max_sequences and the comparison of the loop's last lines.
CapReached(cap, n) == cap # None /\ cap[1] # 0 /\ n >= cap[1]

\* The loop body's assignment: "if pattern_matches:" keeps only matching records.
TplrrExamine(data, id, sequence, pattern_matches, pattern_length) ==
  IF Len(pattern_matches) > 0
  THEN DictSet(data, id, LrrEntry(pattern_matches, pattern_length, sequence))
  ELSE data

\* One pass of the for loop: examine the next record, keep it when it matches,
\* count it, and break when the cap is reached.
TplrrStep ==
  /\ pc = "loop"
  /\ scanner = "tplrr"
  /\ processed_count < Len(records)
  /\ LET record == records[processed_count + 1]
         sequence == record.seq
         starts == match_starts(Compiled, sequence)
         pattern_matches == matched_text(Compiled, sequence, starts)
     IN  /\ lrr_data' = TplrrExamine(lrr_data, record.id, sequence, pattern_matches,
                                          PatternLength)
         /\ last' = [id |-> record.id, sequence |-> sequence,
                     starts |-> starts,
                     pattern_matches |-> pattern_matches]
  /\ processed_count' = processed_count + 1
  /\ pc' = IF CapReached(max_sequences, processed_count') THEN "found" ELSE "loop"
  /\ UNCHANGED <<scanner, pattern_name, pattern_str, max_sequences, local, file_kind,
                 records, downloaded, opened, output, error, exit_status>>
  /\ UNCHANGED <<batchVars, catalogVars>>

\* The iterator is exhausted: find_lrr_patterns returns lrr_data.
TplrrReturn ==
  /\ pc = "loop"
  /\ scanner = "tplrr"
  /\ processed_count = Len(records)
  /\ pc' = "found"
  /\ UNCHANGED <<scanner, pattern_name, pattern_str, max_sequences, local, file_kind,
                 records, processed_count, lrr_data, last, downloaded, opened, output,
                 error, exit_status>>
  /\ UNCHANGED <<batchVars, catalogVars>>

\* The report: the header's pattern name, then one row per entry of lrr_data.
TplrrReport(data, name) ==
  [header |-> name,
   rows |-> [i \in 1..Len(data) |->
               <<data[i].key, data[i].val.count, data[i].val.total_lrr_length,
                 data[i].val.total_length, data[i].val.patterns>>]]

TplrrSave ==
  /\ pc = "found"
  /\ scanner = "tplrr"
  /\ output' = Some(TplrrReport(lrr_data, pattern_name))
  /\ pc' = "saved"
  /\ UNCHANGED <<scanner, pattern_name, pattern_str, max_sequences, local, file_kind,
                 records, processed_count, lrr_data, last, downloaded, opened,
                 error, exit_status>>
  /\ UNCHANGED <<batchVars, catalogVars>>

\* main's tail: upload_to_bucket unless --no-upload, then the success message.
TplrrMainFinish ==
  /\ pc = "saved"
  /\ scanner = "tplrr"
  /\ \E uploaded \in BOOLEAN :
       IF uploaded
       THEN pc' = "done" /\ exit_status' = Some(0) /\ UNCHANGED error
       ELSE Raise("UploadError")
  /\ UNCHANGED <<scanner, pattern_name, pattern_str, max_sequences, local, file_kind,
                 records, processed_count, lrr_data, last, downloaded, opened, output>>
  /\ UNCHANGED <<batchVars, catalogVars>>

(***************************************************************************)
(* ncbi_lrr_finder.py: find_lrr_patterns                                   *)
(***************************************************************************)
NcbiFindEnter ==
  /\ pc = "find"
  /\ scanner = "ncbi"
  /\ IF pattern_name \notin DOMAIN NCBI_LRR_PATTERNS
     THEN Raise("UnknownPattern") /\ UNCHANGED opened
     ELSE IF file_kind = "missing"
     THEN Raise("FileNotFoundError") /\ UNCHANGED opened
     ELSE /\ opened' = TRUE
          /\ IF file_kind = "notgzip"
             THEN Raise("BadGzipFile")
             ELSE pc' = "loop" /\ UNCHANGED <<error, exit_status>>
  /\ UNCHANGED <<scanner, pattern_name, pattern_str, max_sequences, local, file_kind,
                 records, processed_count, lrr_data, last, downloaded, output>>
  /\ UNCHANGED <<batchVars, catalogVars>>

\* The loop body's assignment: "if pattern_matches:" keeps only matching records.
NcbiExamine(data, id, sequence, pattern_matches, pattern_length) ==
  IF Len(pattern_matches) > 0
  THEN DictSet(data, id, LrrEntry(pattern_matches, pattern_length, sequence))
  ELSE data

NcbiStep ==
  /\ pc = "loop"
  /\ scanner = "ncbi"
  /\ processed_count < Len(records)
  /\ LET record == records[processed_count + 1]
         sequence == record.seq
         starts == match_starts(Compiled, sequence)
         pattern_matches == matched_text(Compiled, sequence, starts)
     IN  /\ lrr_data' = NcbiExamine(lrr_data, record.id, sequence, pattern_matches,
                                          PatternLength)
         /\ last' = [id |-> record.id, sequence |-> sequence,
                     starts |-> starts,
                     pattern_matches |-> pattern_matches]
  /\ processed_count' = processed_count + 1
  /\ UNCHANGED <<scanner, pattern_name, pattern_str, max_sequences, local, file_kind,
                 records, pc, downloaded, opened, output, error, exit_status>>
  /\ UNCHANGED <<batchVars, catalogVars>>

NcbiReturn ==
  /\ pc = "loop"
  /\ scanner = "ncbi"
  /\ processed_count = Len(records)
  /\ pc' = "found"
  /\ UNCHANGED <<scanner, pattern_name, pattern_str, max_sequences, local, file_kind,
                 records, processed_count, lrr_data, last, downloaded, opened, output,
                 error, exit_status>>
  /\ UNCHANGED <<batchVars, catalogVars>>

(***************************************************************************)
(* bspa_lrr_analyzer.py: find_lrr_patterns                                 *)
(***************************************************************************)
BspaFindEnter ==
  /\ pc = "find"
  /\ scanner = "bspa"
  /\ IF file_kind = "missing"
     THEN Raise("FileNotFoundError") /\ UNCHANGED opened
     ELSE /\ opened' = TRUE
          /\ IF file_kind = "notgzip"
             THEN Raise("ParseError")
             ELSE pc' = "loop" /\ UNCHANGED <<error, exit_status>>
  /\ UNCHANGED <<scanner, pattern_name, pattern_str, max_sequences, local, file_kind,
                 records, processed_count, lrr_data, last, downloaded, output>>
  /\ UNCHANGED <<batchVars, catalogVars>>

\* The loop body's assignment: every record gets an entry.
BspaExamine(data, id, sequence, pattern_matches, pattern_length) ==
  DictSet(data, id, LrrEntry(pattern_matches, pattern_length, sequence))

BspaStep ==
  /\ pc = "loop"
  /\ scanner = "bspa"
  /\ processed_count < Len(records)
  /\ LET record == records[processed_count + 1]
         sequence == record.seq
         starts == match_starts(Compiled, sequence)
         pattern_matches == matched_text(Compiled, sequence, starts)
     IN  /\ lrr_data' = BspaExamine(lrr_data, record.id, sequence, pattern_matches,
                                          PatternLength)
         /\ last' = [id |-> record.id, sequence |-> sequence,
                     starts |-> starts,
                     pattern_matches |-> pattern_matches]
  /\ processed_count' = processed_count + 1
  /\ UNCHANGED <<scanner, pattern_name, pattern_str, max_sequences, local, file_kind,
                 records, pc, downloaded, opened, output, error, exit_status>>
  /\ UNCHANGED <<batchVars, catalogVars>>

BspaReturn ==
  /\ pc = "loop"
  /\ scanner = "bspa"
  /\ processed_count = Len(records)
  /\ pc' = "found"
  /\ UNCHANGED <<scanner, pattern_name, pattern_str, max_sequences, local, file_kind,
                 records, processed_count, lrr_data, last, downloaded, opened, output,
                 error, exit_status>>
  /\ UNCHANGED <<batchVars, catalogVars>>

\* save_results: the header, then one row per entry of lrr_data.
BspaReport(data) ==
  [header |-> "TpLRR",
   rows |-> [i \in 1..Len(data) |->
               <<data[i].key, data[i].val.count, data[i].val.total_lrr_length,
                 data[i].val.total_length, data[i].val.patterns>>]]

BspaSave ==
  /\ pc = "found"
  /\ scanner = "bspa"
  /\ output' = Some(BspaReport(lrr_data))
  /\ pc' = "saved"
  /\ UNCHANGED <<scanner, pattern_name, pattern_str, max_sequences, local, file_kind,
                 records, processed_count, lrr_data, last, downloaded, opened,
                 error, exit_status>>
  /\ UNCHANGED <<batchVars, catalogVars>>

\* main's tail: upload_to_bucket unless --no-upload, then the success message.
BspaMainFinish ==
  /\ pc = "saved"
  /\ scanner = "bspa"
  /\ \E uploaded \in BOOLEAN :
       IF uploaded
       THEN pc' = "done" /\ exit_status' = Some(0) /\ UNCHANGED error
       ELSE Raise("UploadError")
  /\ UNCHANGED <<scanner, pattern_name, pattern_str, max_sequences, local, file_kind,
                 records, processed_count, lrr_data, last, downloaded, opened, output>>
  /\ UNCHANGED <<batchVars, catalogVars>>

(***************************************************************************)
(* revised_tplrr_finder.py: find_lrr_patterns                              *)
(***************************************************************************)
RevisedFindEnter ==
  /\ pc = "find"
  /\ scanner = "revised"
  /\ IF file_kind = "missing"
     THEN Raise("FileNotFoundError") /\ UNCHANGED opened
     ELSE /\ opened' = TRUE
          /\ IF file_kind = "notgzip"
             THEN Raise("ParseError")
             ELSE pc' = "loop" /\ UNCHANGED <<error, exit_status>>
  /\ UNCHANGED <<scanner, pattern_name, pattern_str, max_sequences, local, file_kind,
                 records, processed_count, lrr_data, last, downloaded, output>>
  /\ UNCHANGED <<batchVars, catalogVars>>

\* The loop body's assignment: every record gets an entry.
RevisedExamine(data, id, sequence, pattern_matches, pattern_length) ==
  DictSet(data, id, LrrEntry(pattern_matches, pattern_length, sequence))

RevisedStep ==
  /\ pc = "loop"
  /\ scanner = "revised"
  /\ processed_count < Len(records)
  /\ LET record == records[processed_count + 1]
         sequence == record.seq
         starts == match_starts(Compiled, sequence)
         pattern_matches == matched_text(Compiled, sequence, starts)
     IN  /\ lrr_data' = RevisedExamine(lrr_data, record.id, sequence, pattern_matches,
                                          PatternLength)
         /\ last' = [id |-> record.id, sequence |-> sequence,
                     starts |-> starts,
                     pattern_matches |-> pattern_matches]
  /\ processed_count' = processed_count + 1
  /\ UNCHANGED <<scanner, pattern_name, pattern_str, max_sequences, local, file_kind,
                 records, pc, downloaded, opened, output, error, exit_status>>
  /\ UNCHANGED <<batchVars, catalogVars>>

RevisedReturn ==
  /\ pc = "loop"
  /\ scanner = "revised"
  /\ processed_count = Len(records)
  /\ pc' = "found"
  /\ UNCHANGED <<scanner, pattern_name, pattern_str, max_sequences, local, file_kind,
                 records, processed_count, lrr_data, last, downloaded, opened, output,
                 error, exit_status>>
  /\ UNCHANGED <<batchVars, catalogVars>>

\* save_results: the header, then a row for each entry of lrr_data whose
\* 'patterns' string is not empty.
RevisedReport(data) ==
  LET kept == SelectSeq(data, LAMBDA e : Len(e.val.patterns) > 0)
  IN  [header |-> "TpLRR",
       rows |-> [i \in 1..Len(kept) |->
                   <<kept[i].key, kept[i].val.count, kept[i].val.total_lrr_length,
                     kept[i].val.total_length, kept[i].val.patterns>>]]

RevisedSave ==
  /\ pc = "found"
  /\ scanner = "revised"
  /\ output' = Some(RevisedReport(lrr_data))
  /\ pc' = "saved"
  /\ UNCHANGED <<scanner, pattern_name, pattern_str, max_sequences, local, file_kind,
                 records, processed_count, lrr_data, last, downloaded, opened,
                 error, exit_status>>
  /\ UNCHANGED <<batchVars, catalogVars>>

\* main's tail: "Process completed successfully."
RevisedMainFinish ==
  /\ pc = "saved"
  /\ scanner = "revised"
  /\ pc' = "done"
  /\ exit_status' = Some(0)
  /\ UNCHANGED <<scanner, pattern_name, pattern_str, max_sequences, local, file_kind,
                 records, processed_count, lrr_data, last, downloaded, opened, output,
                 error>>
  /\ UNCHANGED <<batchVars, catalogVars>>

(***************************************************************************)
(* ncbi_lrr_finder.py: the batch run                                       *)
(***************************************************************************)
\* Files that may lie below the folder: path, whether it is a readable gzip
\* file, and the records it holds.
TREE ==
  LET tp == Inst(COMPILED["TpLRR"])
      ri == Inst(COMPILED["RI-like"])
  IN
  << [path |-> <<"d","1","/","x",".","p","r","o","t","e","i","n",".","f","a","a",".","g","z">>,
      kind |-> "ok",
      records |-> << [id |-> "a", seq |-> <<"X","X">> \o tp \o <<"Y","Y","Y","Y">>],
                     [id |-> "b", seq |-> ri] >>],
     [path |-> <<"d","2","/","x",".","p","r","o","t","e","i","n",".","f","a","a",".","g","z">>,
      kind |-> "ok",
      records |-> << [id |-> "b", seq |-> tp \o <<"X">> \o tp],
                     [id |-> "a", seq |-> ri \o ri] >>],
     [path |-> <<"d","1","/","y",".","p","r","o","t","e","i","n",".","f","a","a",".","g","z">>,
      kind |-> "notgzip",
      records |-> <<>>],
     [path |-> <<"d","1","/","z",".","p","r","o","t","e","i","n",".","f","a","a",".","g","z">>,
      kind |-> "ok",
      records |-> <<>>],
     [path |-> <<"d","1","/","x",".","p","r","o","t","e","i","n",".","p","r","o","t","e","i","n",".","f","a","a",".","g","z">>,
      kind |-> "ok",
      records |-> << [id |-> "a", seq |-> <<"X","X">>] >>],
     [path |-> <<"d","1","/","w",".","f","a","a",".","g","z">>,
      kind |-> "ok",
      records |-> << [id |-> "a", seq |-> tp] >>] >>

BatchPatterns == {"TpLRR", "RI-like", UnknownName}
OutputDirs == {None, Some(<<"o","u","t">>)}

\* str.endswith, os.path.basename and str.replace(old, "").
EndsWith(str, suffix) ==
  /\ Len(suffix) <= Len(str)
  /\ SubSeq(str, Len(str) - Len(suffix) + 1, Len(str)) = suffix

RECURSIVE LastSlash(_, _)
LastSlash(str, i) == IF i = 0 \/ str[i] = "/" THEN i ELSE LastSlash(str, i - 1)

basename(path) == SubSeq(path, LastSlash(path, Len(path)) + 1, Len(path))

RECURSIVE RemoveAll(_, _)
RemoveAll(str, old) ==
  IF Len(str) < Len(old) \/ Len(old) = 0 THEN str
  ELSE IF SubSeq(str, 1, Len(old)) = old
       THEN RemoveAll(SubSeq(str, Len(old) + 1, Len(str)), old)
       ELSE <<str[1]>> \o RemoveAll(Tail(str), old)

\* get_faa_gz_files: the files matching **/*.protein.faa.gz.
get_faa_gz_files(dir) ==
  {i \in dir : EndsWith(basename(TREE[i].path),
                        <<".","p","r","o","t","e","i","n",".","f","a","a",".","g","z">>)}

\* find_lrr_patterns of ncbi_lrr_finder on a whole file.
RECURSIVE NcbiFindAll(_, _, _)
NcbiFindAll(recs, name, data) ==
  IF Len(recs) = 0 THEN data
  ELSE LET sequence == recs[1].seq
           pattern_matches == findall(NCBI_COMPILED[name], sequence)
       IN  NcbiFindAll(Tail(recs), name,
                       NcbiExamine(data, recs[1].id, sequence, pattern_matches,
                                   NCBI_LRR_PATTERNS[name].length))

\* save_results: the output path ...
NcbiOutputFile(file_name, name, dir) ==
  LET base_name == RemoveAll(RemoveAll(basename(file_name), <<".","f","a","a",".","g","z">>),
                             <<".","p","r","o","t","e","i","n">>)
  IN  [dir |-> dir, file |-> <<base_name, "_", name, ".txt">>]

\* ... and the lines written: the header, then the rows with a Patterns cell.
RECURSIVE NcbiRows(_)
NcbiRows(data) ==
  IF Len(data) = 0 THEN <<>>
  ELSE (IF Len(data[1].val.patterns) > 0
        THEN << [kind |-> "row",
                 cells |-> <<data[1].key, data[1].val.count, data[1].val.total_lrr_length,
                             data[1].val.total_length, data[1].val.patterns>>] >>
        ELSE <<>>) \o NcbiRows(Tail(data))

NcbiReportLines(data, name) == << [kind |-> "header", name |-> name] >> \o NcbiRows(data)

\* What process_file writes for each file of TREE under each pattern, and where.
TREE_LINES ==
  [t \in 1..Len(TREE) |-> [name \in PatternNames |->
     NcbiReportLines(NcbiFindAll(TREE[t].records, name, <<>>), name)]]
TREE_OUTPUT ==
  [t \in 1..Len(TREE) |-> [name \in PatternNames |-> [dir \in OutputDirs |->
     NcbiOutputFile(TREE[t].path, name, dir)]]]
TREE_MATCHING == get_faa_gz_files(1..Len(TREE))

FileOf(i) == TREE[faa_gz_files[i]]
LinesOf(i) == TREE_LINES[faa_gz_files[i]][pattern_name]
PathOf(i) == TREE_OUTPUT[faa_gz_files[i]][pattern_name][output_dir]

\* A write of one line at a file offset counted in lines.
WriteAt(content, off, line) ==
  IF off < Len(content)
  THEN [content EXCEPT ![off + 1] = line]
  ELSE content \o [k \in 1..(off - Len(content)) |-> [kind |-> "hole"]] \o <<line>>

Perms(S) == {f \in [1..Cardinality(S) -> S] : \A a, b \in 1..Cardinality(S) : a # b => f[a] # f[b]}

ScanIdle ==
  /\ scanner = "ncbi"
  /\ pattern_str = None
  /\ max_sequences = None
  /\ local = TRUE
  /\ file_kind = "ok"
  /\ records = <<>>
  /\ pc = "off"
  /\ processed_count = 0
  /\ lrr_data = <<>>
  /\ last = NoLast
  /\ downloaded = FALSE
  /\ opened = FALSE
  /\ output = None
  /\ error = ""

scanIdleVars == <<scanner, pattern_str, max_sequences, local, file_kind, records, pc,
                  processed_count, lrr_data, last, downloaded, opened, output, error>>

BatchInit ==
  /\ ScanIdle
  /\ pattern_name \in BatchPatterns
  /\ exit_status = None
  /\ folder \in {d \in SUBSET (1..Len(TREE)) : Cardinality(d) <= MaxFiles}
  /\ parallel \in BOOLEAN
  /\ max_workers \in (IF parallel THEN 0..MaxWorkers ELSE {MaxWorkers})
  /\ output_dir \in OutputDirs
  /\ faa_gz_files = <<>>
  /\ bpc = "parse"
  /\ queue_head = 1
  /\ workers = [w \in 0..MaxWorkers |-> IdleWorker]
  /\ result = <<>>
  /\ fs = <<>>
  /\ pool_broken = FALSE
  /\ faults = <<>>
  /\ stopped = FALSE

\* parse_args: --pattern has choices=LRR_PATTERNS.keys(); argparse exits with 2.
BatchParse ==
  /\ bpc = "parse"
  /\ IF pattern_name \in DOMAIN NCBI_LRR_PATTERNS
     THEN bpc' = "discover" /\ UNCHANGED exit_status
     ELSE bpc' = "exit" /\ exit_status' = Some(2)
  /\ UNCHANGED <<scanIdleVars, catalogVars, stopped, pattern_name, folder, parallel, max_workers, output_dir,
                 faa_gz_files, queue_head, workers, result, fs, pool_broken, faults>>

\* main: the list of input files, in the order the directory walk yields them.
BatchDiscover ==
  /\ bpc = "discover"
  /\ \E order \in Perms(folder \cap TREE_MATCHING) :
       /\ faa_gz_files' = order
       /\ result' = [i \in 1..Len(order) |-> "pending"]
       /\ faults' = [i \in 1..Len(order) |-> "none"]
       /\ IF Len(order) = 0
          THEN bpc' = "exit" /\ exit_status' = Some(1)
          ELSE bpc' = "run" /\ UNCHANGED exit_status
  /\ UNCHANGED <<scanIdleVars, catalogVars, stopped, pattern_name, folder, parallel, max_workers, output_dir,
                 queue_head, workers, fs, pool_broken>>

\* ProcessPoolExecutor(max_workers) raises ValueError for max_workers <= 0.
BatchPoolInvalid ==
  /\ bpc = "run"
  /\ parallel
  /\ max_workers <= 0
  /\ bpc' = "exit"
  /\ exit_status' = Some(1)
  /\ UNCHANGED <<scanIdleVars, catalogVars, stopped, pattern_name, folder, parallel, max_workers, output_dir,
                 faa_gz_files, queue_head, workers, result, fs, pool_broken, faults>>

\* The sequential loop: the main process (worker 0) calls process_file on the
\* next file of the list once the previous call has returned.
SeqNextFile ==
  /\ bpc = "run"
  /\ ~parallel
  /\ workers[0].phase = "idle"
  /\ queue_head <= Len(faa_gz_files)
  /\ workers' = [workers EXCEPT ![0] = [file |-> queue_head, phase |-> "find", off |-> 0]]
  /\ result' = [result EXCEPT ![queue_head] = "running"]
  /\ queue_head' = queue_head + 1
  /\ UNCHANGED <<scanIdleVars, catalogVars, stopped, pattern_name, exit_status, folder, parallel, max_workers,
                 output_dir, faa_gz_files, bpc, fs, pool_broken, faults>>

\* A pool that hands the next call to a process that is still busy.
PoolDispatchBusy(w) ==
  /\ bpc = "run"
  /\ parallel
  /\ w \in 1..max_workers
  /\ ~pool_broken
  /\ queue_head <= Len(faa_gz_files)
  /\ workers' = [workers EXCEPT ![w] = [file |-> queue_head, phase |-> "find", off |-> 0]]
  /\ result' = [result EXCEPT ![queue_head] = "running"]
  /\ queue_head' = queue_head + 1
  /\ UNCHANGED <<scanIdleVars, catalogVars, stopped, pattern_name, exit_status, folder, parallel, max_workers,
                 output_dir, faa_gz_files, bpc, fs, pool_broken, faults>>

\* The pool: an idle worker process takes the next submitted call.  The
\* processes are interchangeable: the lowest-numbered idle one stands for any.
PoolDispatch(w) ==
  /\ bpc = "run"
  /\ parallel
  /\ w \in 1..max_workers
  /\ ~pool_broken
  /\ workers[w].phase = "idle"
  /\ \A v \in 1..(w - 1) : workers[v].phase # "idle"
  /\ queue_head <= Len(faa_gz_files)
  /\ workers' = [workers EXCEPT ![w] = [file |-> queue_head, phase |-> "find", off |-> 0]]
  /\ result' = [result EXCEPT ![queue_head] = "running"]
  /\ queue_head' = queue_head + 1
  /\ UNCHANGED <<scanIdleVars, catalogVars, stopped, pattern_name, exit_status, folder, parallel, max_workers,
                 output_dir, faa_gz_files, bpc, fs, pool_broken, faults>>

\* A process_file that treats a file without records as a failure.
ProcFindEmptyFails(w) ==
  /\ bpc = "run"
  /\ workers[w].phase = "find"
  /\ LET i == workers[w].file
     IN  IF FileOf(i).kind = "ok" /\ Len(FileOf(i).records) > 0
         THEN /\ workers' = [workers EXCEPT ![w].phase = "open"]
              /\ UNCHANGED result
         ELSE /\ workers' = [workers EXCEPT ![w] = IdleWorker]
              /\ result' = [result EXCEPT ![i] = "none"]
  /\ UNCHANGED <<scanIdleVars, catalogVars, stopped, pattern_name, exit_status, folder,
                 parallel, max_workers, output_dir, faa_gz_files, bpc, queue_head, fs,
                 pool_broken, faults>>

\* process_file: find_lrr_patterns; an exception makes process_file return None.
ProcFind(w) ==
  /\ bpc = "run"
  /\ workers[w].phase = "find"
  /\ LET i == workers[w].file
     IN  IF FileOf(i).kind = "ok"
         THEN /\ workers' = [workers EXCEPT ![w].phase = "open"]
              /\ UNCHANGED result
         ELSE /\ workers' = [workers EXCEPT ![w] = IdleWorker]
              /\ result' = [result EXCEPT ![i] = "none"]
  /\ UNCHANGED <<scanIdleVars, catalogVars, stopped, pattern_name, exit_status, folder, parallel, max_workers,
                 output_dir, faa_gz_files, bpc, queue_head, fs, pool_broken, faults>>

\* save_results: open(output_file, 'w') creates or truncates the file.
ProcOpen(w) ==
  /\ bpc = "run"
  /\ workers[w].phase = "open"
  /\ fs' = (PathOf(workers[w].file) :> <<>>) @@ fs
  /\ workers' = [workers EXCEPT ![w].phase = "write"]
  /\ UNCHANGED <<scanIdleVars, catalogVars, stopped, pattern_name, exit_status, folder, parallel, max_workers,
                 output_dir, faa_gz_files, bpc, queue_head, result, pool_broken, faults>>

\* save_results: the next line reaches the file at this process's own offset.
ProcWrite(w) ==
  /\ bpc = "run"
  /\ workers[w].phase = "write"
  /\ LET i == workers[w].file
         off == workers[w].off
     IN  /\ off < Len(LinesOf(i))
         /\ fs' = [fs EXCEPT ![PathOf(i)] = WriteAt(@, off, LinesOf(i)[off + 1])]
         /\ workers' = [workers EXCEPT ![w].off = off + 1]
  /\ UNCHANGED <<scanIdleVars, catalogVars, stopped, pattern_name, exit_status, folder, parallel, max_workers,
                 output_dir, faa_gz_files, bpc, queue_head, result, pool_broken, faults>>

\* save_results returns the path, and process_file with it.
ProcReturn(w) ==
  /\ bpc = "run"
  /\ workers[w].phase = "write"
  /\ workers[w].off = Len(LinesOf(workers[w].file))
  /\ result' = [result EXCEPT ![workers[w].file] = "ok"]
  /\ workers' = [workers EXCEPT ![w] = IdleWorker]
  /\ UNCHANGED <<scanIdleVars, catalogVars, stopped, pattern_name, exit_status, folder, parallel, max_workers,
                 output_dir, faa_gz_files, bpc, queue_head, fs, pool_broken, faults>>

NumFaults == Cardinality({i \in 1..Len(faults) : faults[i] # "none"})

\* open or write raises (disk full, no permission): save_results re-raises,
\* process_file logs and returns None; what was written stays.
ProcWriteError(w) ==
  /\ bpc = "run"
  /\ workers[w].phase \in {"open", "write"}
  /\ NumFaults < MaxFaults
  /\ faults' = [faults EXCEPT ![workers[w].file] = "write"]
  /\ result' = [result EXCEPT ![workers[w].file] = "none"]
  /\ workers' = [workers EXCEPT ![w] = IdleWorker]
  /\ UNCHANGED <<scanIdleVars, catalogVars, stopped, pattern_name, exit_status, folder, parallel, max_workers,
                 output_dir, faa_gz_files, bpc, queue_head, fs, pool_broken>>

\* A worker process dies: the executor breaks, terminates the other workers,
\* and every call that has not returned fails with BrokenProcessPool.
WorkerDies(w) ==
  /\ bpc = "run"
  /\ parallel
  /\ w \in 1..max_workers
  /\ workers[w].phase # "idle"
  /\ NumFaults < MaxFaults
  /\ faults' = [faults EXCEPT ![workers[w].file] = "died"]
  /\ pool_broken' = TRUE
  /\ result' = [i \in 1..Len(result) |->
                  IF result[i] \in {"pending", "running"} THEN "broken" ELSE result[i]]
  /\ workers' = [v \in 0..MaxWorkers |-> IdleWorker]
  /\ UNCHANGED <<scanIdleVars, catalogVars, stopped, pattern_name, exit_status, folder, parallel, max_workers,
                 output_dir, faa_gz_files, bpc, queue_head, fs>>

\* The user interrupts the run: KeyboardInterrupt is raised in the main
\* process.  It is no Exception, so neither process_file nor main catches it.
\* Sequential mode: the call in progress is abandoned (the with-block closes
\* the report with what was written so far) and the interpreter exits.
\* Parallel mode: the with-block of the executor calls shutdown(wait=True),
\* which waits until every submitted call has run.
Interrupt ==
  /\ bpc = "run"
  /\ ~stopped
  /\ ~(parallel /\ max_workers <= 0)
  /\ stopped' = TRUE
  /\ IF parallel
     THEN UNCHANGED <<bpc, exit_status, workers, result, faults>>
     ELSE /\ bpc' = "exit"
          /\ exit_status' = Some(130)
          /\ workers' = [workers EXCEPT ![0] = IdleWorker]
          /\ IF workers[0].phase = "idle"
             THEN UNCHANGED <<result, faults>>
             ELSE /\ result' = [result EXCEPT ![workers[0].file] = "interrupted"]
                  /\ faults' = [faults EXCEPT ![workers[0].file] = "interrupt"]
  /\ UNCHANGED <<scanIdleVars, catalogVars, pattern_name, folder, parallel, max_workers, output_dir,
                 faa_gz_files, queue_head, fs, pool_broken>>

\* The interrupt also reaches a worker process that is handling a file (an
\* interrupt from the terminal goes to the whole process group): the call is
\* abandoned with what it has written, the executor's worker loop reports the
\* KeyboardInterrupt as the call's outcome and takes the next call.
WorkerInterrupted(w) ==
  /\ bpc = "run"
  /\ parallel
  /\ stopped
  /\ w \in 1..max_workers
  /\ workers[w].phase # "idle"
  /\ NumFaults < MaxFaults
  /\ faults' = [faults EXCEPT ![workers[w].file] = "interrupt"]
  /\ result' = [result EXCEPT ![workers[w].file] = "interrupted"]
  /\ workers' = [workers EXCEPT ![w] = IdleWorker]
  /\ UNCHANGED <<scanIdleVars, catalogVars, stopped, pattern_name, exit_status, folder, parallel,
                 max_workers, output_dir, faa_gz_files, bpc, queue_head, fs, pool_broken>>

\* main after the loop: every call has returned or failed; the results were
\* only logged; "All files processed successfully" and exit status 0.  After
\* an interrupt the pending KeyboardInterrupt ends the interpreter instead.
BatchFinish ==
  /\ bpc = "run"
  /\ ~(parallel /\ max_workers <= 0)
  /\ \A i \in 1..Len(result) : result[i] \in {"ok", "none", "broken", "interrupted"}
  /\ bpc' = "exit"
  /\ exit_status' = (IF stopped THEN Some(130) ELSE Some(0))
  /\ UNCHANGED <<scanIdleVars, catalogVars, stopped, pattern_name, folder, parallel, max_workers, output_dir,
                 faa_gz_files, queue_head, workers, result, fs, pool_broken, faults>>

BatchNext ==
  \/ BatchParse
  \/ BatchDiscover
  \/ BatchPoolInvalid
  \/ SeqNextFile
  \/ \E w \in 1..MaxWorkers : PoolDispatch(w)
  \/ \E w \in 0..MaxWorkers : ProcFind(w)
  \/ \E w \in 0..MaxWorkers : ProcOpen(w)
  \/ \E w \in 0..MaxWorkers : ProcWrite(w)
  \/ \E w \in 0..MaxWorkers : ProcReturn(w)
  \/ \E w \in 0..MaxWorkers : ProcWriteError(w)
  \/ \E w \in 1..MaxWorkers : WorkerDies(w)
  \/ Interrupt
  \/ \E w \in 1..MaxWorkers : WorkerInterrupted(w)
  \/ BatchFinish

SpecBatch == (BatchInit /\ CatalogIdle) /\ [][BatchNext]_vars

ScanNext ==
  \/ TplrrMainInput
  \/ TplrrFindEnter
  \/ TplrrStep
  \/ TplrrReturn
  \/ TplrrSave
  \/ TplrrMainFinish
  \/ NcbiFindEnter
  \/ NcbiStep
  \/ NcbiReturn
  \/ BspaFindEnter
  \/ BspaStep
  \/ BspaReturn
  \/ BspaSave
  \/ BspaMainFinish
  \/ RevisedFindEnter
  \/ RevisedStep
  \/ RevisedReturn
  \/ RevisedSave
  \/ RevisedMainFinish

SpecScan == (ScanInit /\ CatalogIdle) /\ [][ScanNext]_vars

(***************************************************************************)
(* lrr_patterns.py: the catalog as a JSON file                             *)
(***************************************************************************)
\* The characters of the catalog's names, descriptions and field names.
Spelling ==
  ("TpLRR" :> <<"T","p","L","R","R">>)
  @@ ("TpLRR pattern (21 AA)" :> <<"T","p","L","R","R"," ","p","a","t","t","e","r","n"," ","(","2","1"," ","A","A",")">>)
  @@ ("RI-like" :> <<"R","I","-","l","i","k","e">>)
  @@ ("RI-like pattern (28 AA)" :> <<"R","I","-","l","i","k","e"," ","p","a","t","t","e","r","n"," ","(","2","8"," ","A","A",")">>)
  @@ ("SDS22-like" :> <<"S","D","S","2","2","-","l","i","k","e">>)
  @@ ("SDS22-like pattern (22 AA)" :> <<"S","D","S","2","2","-","l","i","k","e"," ","p","a","t","t","e","r","n"," ","(","2","2"," ","A","A",")">>)
  @@ ("Cysteine-containing" :> <<"C","y","s","t","e","i","n","e","-","c","o","n","t","a","i","n","i","n","g">>)
  @@ ("Cysteine-containing pattern (22 AA)" :> <<"C","y","s","t","e","i","n","e","-","c","o","n","t","a","i","n","i","n","g"," ","p","a","t","t","e","r","n"," ","(","2","2"," ","A","A",")">>)
  @@ ("Bacterial" :> <<"B","a","c","t","e","r","i","a","l">>)
  @@ ("Bacterial pattern (20 AA)" :> <<"B","a","c","t","e","r","i","a","l"," ","p","a","t","t","e","r","n"," ","(","2","0"," ","A","A",")">>)
  @@ ("Typical" :> <<"T","y","p","i","c","a","l">>)
  @@ ("Typical LRR pattern" :> <<"T","y","p","i","c","a","l"," ","L","R","R"," ","p","a","t","t","e","r","n">>)
  @@ ("Plant-specific" :> <<"P","l","a","n","t","-","s","p","e","c","i","f","i","c">>)
  @@ ("Plant-specific pattern (22 AA)" :> <<"P","l","a","n","t","-","s","p","e","c","i","f","i","c"," ","p","a","t","t","e","r","n"," ","(","2","2"," ","A","A",")">>)
  @@ ("pattern" :> <<"p","a","t","t","e","r","n">>)
  @@ ("length" :> <<"l","e","n","g","t","h">>)
  @@ ("description" :> <<"d","e","s","c","r","i","p","t","i","o","n">>)

\* The keys of LRR_PATTERNS in the order of the dict literal.
PATTERN_ORDER ==
  <<"TpLRR", "RI-like", "SDS22-like", "Cysteine-containing", "Bacterial", "Typical", "Plant-specific">>

\* A Python value as json sees it: a str, an int, or a dict with str keys
\* (key/value pairs in insertion order).
PyStr(chars) == [type |-> "str", v |-> chars]
PyInt(n) == [type |-> "int", v |-> n]
PyDict(pairs) == [type |-> "dict", v |-> pairs]

\* The dict cat restricted to the keys of order, as a Python value.
CatalogValue(cat, order) ==
  PyDict([i \in 1..Len(order) |->
    [key |-> Spelling[order[i]],
     val |-> PyDict(<< [key |-> Spelling["pattern"], val |-> PyStr(cat[order[i]].pattern)],
                       [key |-> Spelling["length"], val |-> PyInt(cat[order[i]].length)],
                       [key |-> Spelling["description"],
                        val |-> PyStr(Spelling[cat[order[i]].description])] >>)]])

\* json.dump(obj, f, indent=2): the text written, one character per element.
DigitChar == <<"0","1","2","3","4","5","6","7","8","9">>

\* An encoder that writes only the last digit of a number.
JsonIntLastDigit(n) == <<DigitChar[(n % 10) + 1]>>

RECURSIVE JsonInt(_)
JsonInt(n) ==
  IF n < 10 THEN <<DigitChar[n + 1]>>
  ELSE JsonInt(n \div 10) \o <<DigitChar[(n % 10) + 1]>>

\* Each character of a string, a quote or a backslash behind a backslash.
\* (The halves are escaped separately: the result is the same as that of a
\* pass from left to right.)
RECURSIVE JsonEscape(_)
JsonEscape(chars) ==
  IF Len(chars) = 0 THEN <<>>
  ELSE IF Len(chars) = 1
  THEN (IF chars[1] \in {"\"", "\\"} THEN <<"\\", chars[1]>> ELSE chars)
  ELSE JsonEscape(SubSeq(chars, 1, Len(chars) \div 2))
       \o JsonEscape(SubSeq(chars, (Len(chars) \div 2) + 1, Len(chars)))

JsonStr(chars) == <<"\"">> \o JsonEscape(chars) \o <<"\"">>

Spaces(n) == [k \in 1..n |-> " "]

RECURSIVE JsonEncode(_, _)
RECURSIVE JsonMembers(_, _)
JsonEncode(value, level) ==
  CASE value.type = "str" -> JsonStr(value.v)
    [] value.type = "int" -> JsonInt(value.v)
    [] OTHER ->
         IF Len(value.v) = 0 THEN <<"{", "}">>
         ELSE <<"{", "\n">> \o JsonMembers(value.v, level + 1)
              \o <<"\n">> \o Spaces(2 * level) \o <<"}">>

JsonMembers(pairs, level) ==
  Spaces(2 * level) \o JsonStr(pairs[1].key) \o <<":", " ">>
  \o JsonEncode(pairs[1].val, level)
  \o (IF Len(pairs) > 1 THEN <<",", "\n">> \o JsonMembers(Tail(pairs), level) ELSE <<>>)

json_dump(obj) == JsonEncode(obj, 0)

\* json.load(f): the value parsed from the text.  Each parser returns the
\* value and the position after it.
RECURSIVE SkipWs(_, _)
SkipWs(txt, i) ==
  IF i <= Len(txt) /\ txt[i] \in {" ", "\n"} THEN SkipWs(txt, i + 1) ELSE i

\* The first of the run of backslashes that ends just before position p
\* (p itself when there is none), looking no further back than position lo.
RunStart(txt, lo, p) ==
  CHOOSE j \in lo..p :
    /\ \A q \in j..(p - 1) : txt[q] = "\\"
    /\ (j = lo \/ txt[j - 1] # "\\")

\* A backslash that starts an escape: the 1st, 3rd, ... of its run.
Introducer(txt, lo, p) == txt[p] = "\\" /\ (p - RunStart(txt, lo, p)) % 2 = 0

\* A quote that is not escaped.
Terminator(txt, lo, p) == txt[p] = "\"" /\ (p - RunStart(txt, lo, p)) % 2 = 0

\* The closing quote of the string whose first character is at position i.
StringEnd(txt, i) ==
  CHOOSE e \in i..Len(txt) :
    Terminator(txt, i, e) /\ \A q \in i..(e - 1) : ~Terminator(txt, i, q)

\* The characters lo..hi of a string's body without the backslashes that
\* start an escape.
RECURSIVE JsonUnescape(_, _, _, _)
JsonUnescape(txt, i, lo, hi) ==
  IF lo > hi THEN <<>>
  ELSE IF lo = hi THEN (IF Introducer(txt, i, lo) THEN <<>> ELSE <<txt[lo]>>)
  ELSE JsonUnescape(txt, i, lo, (lo + hi) \div 2)
       \o JsonUnescape(txt, i, ((lo + hi) \div 2) + 1, hi)

\* A string from the character after its opening quote on.
ParseStringBody(txt, i) ==
  LET e == StringEnd(txt, i)
  IN  [val |-> JsonUnescape(txt, i, i, e - 1), pos |-> e + 1]

RECURSIVE ParseIntBody(_, _, _)
ParseIntBody(txt, i, acc) ==
  IF i <= Len(txt) /\ txt[i] \in DOMAIN Digit
  THEN ParseIntBody(txt, i + 1, acc * 10 + Digit[txt[i]])
  ELSE [val |-> acc, pos |-> i]

RECURSIVE ParseValue(_, _)
RECURSIVE ParseMembers(_, _, _)
ParseValue(txt, i) ==
  LET j == SkipWs(txt, i)
  IN  IF txt[j] = "\""
      THEN LET r == ParseStringBody(txt, j + 1)
           IN  [val |-> PyStr(r.val), pos |-> r.pos]
      ELSE IF txt[j] = "{"
      THEN LET k == SkipWs(txt, j + 1)
           IN  IF txt[k] = "}" THEN [val |-> PyDict(<<>>), pos |-> k + 1]
               ELSE LET r == ParseMembers(txt, k, <<>>)
                    IN  [val |-> PyDict(r.val), pos |-> r.pos]
      ELSE LET r == ParseIntBody(txt, j, 0)
           IN  [val |-> PyInt(r.val), pos |-> r.pos]

\* The members of an object from the quote of a key on; a repeated key
\* replaces the earlier value.
ParseMembers(txt, i, acc) ==
  LET k == ParseStringBody(txt, i + 1)
      c == SkipWs(txt, k.pos)
      m == ParseValue(txt, c + 1)
      e == SkipWs(txt, m.pos)
      acc2 == DictSet(acc, k.val, m.val)
  IN  IF txt[e] = "," THEN ParseMembers(txt, SkipWs(txt, e + 1), acc2)
      ELSE [val |-> acc2, pos |-> e + 1]

json_load(txt) == ParseValue(txt, 1).val

\* Python's == on these values: dicts are equal when they have the same keys
\* with equal values, whatever their order.
RECURSIVE PyEq(_, _)
PyEq(a, b) ==
  /\ a.type = b.type
  /\ IF a.type = "dict"
     THEN /\ Len(a.v) = Len(b.v)
          /\ DictKeys(a.v) = DictKeys(b.v)
          /\ \A k \in DictKeys(a.v) : PyEq(DictGet(a.v, k), DictGet(b.v, k))
     ELSE a.v = b.v

\* The JSON files of the session: the default path and a caller's path.
DefaultPatternsPath == "data/patterns.json"
PatternsPaths == {None, Some("my_patterns.json")}
PatternsPath(file_path) == IF file_path = None THEN DefaultPatternsPath ELSE file_path[1]

\* A patterns.json left by an earlier run: a catalog with one pattern.
STALE_JSON == json_dump(CatalogValue(LRR_PATTERNS, <<"TpLRR">>))

\* A session that imports lrr_patterns and calls its functions.
CatalogInit ==
  /\ ScanIdle
  /\ BatchIdle
  /\ pattern_name = ""
  /\ exit_status = None
  /\ catalog = LRR_PATTERNS
  /\ json_files \in {<<>>, (DefaultPatternsPath :> STALE_JSON)}
  /\ loaded = None
  /\ got = None
  /\ cat_error = ""
  /\ saved = {}
  /\ calls = 0

InCatalogSession == pc = "off" /\ bpc = "off" /\ calls < MaxCalls

\* save_patterns_to_file: json.dump(LRR_PATTERNS, f, indent=2) into the file,
\* created or truncated by open(file_path, 'w').
save_patterns_to_file(file_path) ==
  /\ InCatalogSession
  /\ json_files' = (PatternsPath(file_path) :> json_dump(CatalogValue(catalog, PATTERN_ORDER)))
                   @@ json_files
  /\ saved' = saved \cup {PatternsPath(file_path)}
  /\ cat_error' = ""
  /\ calls' = calls + 1
  /\ UNCHANGED <<catalog, loaded, got>>
  /\ UNCHANGED <<scanVars, batchVars>>

\* load_patterns_from_file: json.load of the file; open raises when it is absent.
load_patterns_from_file(file_path) ==
  /\ InCatalogSession
  /\ IF PatternsPath(file_path) \in DOMAIN json_files
     THEN /\ loaded' = Some([from |-> PatternsPath(file_path),
                             saved |-> PatternsPath(file_path) \in saved,
                             value |-> json_load(json_files[PatternsPath(file_path)])])
          /\ cat_error' = ""
     ELSE /\ cat_error' = "FileNotFoundError"
          /\ UNCHANGED loaded
  /\ calls' = calls + 1
  /\ UNCHANGED <<catalog, json_files, got, saved>>
  /\ UNCHANGED <<scanVars, batchVars>>

\* get_compiled_pattern: (re.compile(pattern), length) of a catalog entry,
\* ValueError for a name that is no key.
get_compiled_pattern(name) ==
  /\ InCatalogSession
  /\ IF name \in DOMAIN catalog
     THEN /\ got' = Some([pattern |-> re_compile(catalog[name].pattern),
                          length |-> catalog[name].length])
          /\ cat_error' = ""
     ELSE /\ cat_error' = "ValueError"
          /\ UNCHANGED got
  /\ calls' = calls + 1
  /\ UNCHANGED <<catalog, json_files, loaded, saved>>
  /\ UNCHANGED <<scanVars, batchVars>>

CatalogNext ==
  \/ \E file_path \in PatternsPaths : save_patterns_to_file(file_path)
  \/ \E file_path \in PatternsPaths : load_patterns_from_file(file_path)
  \/ \E name \in PatternNames \cup {UnknownName} : get_compiled_pattern(name)

SpecCatalog == (CatalogInit /\ [][CatalogNext]_vars)

\* A run is one scan by one of the scripts, one batch run, or one session
\* with the catalog module.
Init == (ScanInit /\ CatalogIdle) \/ (BatchInit /\ CatalogIdle) \/ CatalogInit
Next == ScanNext \/ BatchNext \/ CatalogNext
Spec == Init /\ [][Next]_vars
(***************************************************************************)
(* Claims about the batch run (SpecBatch).                                 *)
(***************************************************************************)
RECURSIVE SeqArtifactsUpTo(_)
SeqArtifactsUpTo(n) ==
  IF n = 0 THEN <<>>
  ELSE IF FileOf(n).kind = "ok"
       THEN (PathOf(n) :> LinesOf(n)) @@ SeqArtifactsUpTo(n - 1)
       ELSE SeqArtifactsUpTo(n - 1)

\* The output files a run leaves when the list is processed one file after
\* the other, in list order.
SeqArtifacts == SeqArtifactsUpTo(Len(faa_gz_files))

\* The batch ran to its end without being interrupted.
BatchEnded ==
  bpc = "exit" /\ Len(faa_gz_files) > 0 /\ ~(parallel /\ max_workers <= 0) /\ ~stopped

\* C1: for a fixed list of discovered files and a fixed pattern, a run without
\* injected faults ends with the same output files (path -> lines) whether it
\* is sequential or parallel, whatever the number of workers and the order in
\* which they finish: the files the sequential pass over the list leaves.
C1_ArtifactsIndependentOfSchedule ==
  (BatchEnded /\ NumFaults = 0) => fs = SeqArtifacts

Shared(i) == \E j \in 1..Len(faa_gz_files) : j # i /\ PathOf(j) = PathOf(i)

\* C2: when the batch has ended, every file that was readable and was not the
\* one hit by a write error or by the death of its worker has been processed
\* to completion, and its output file holds exactly its report.
C2_FailureIsIsolated ==
  BatchEnded =>
    \A i \in 1..Len(faa_gz_files) :
      (FileOf(i).kind = "ok" /\ faults[i] = "none") =>
        /\ result[i] = "ok"
        /\ ~Shared(i) => (PathOf(i) \in DOMAIN fs /\ fs[PathOf(i)] = LinesOf(i))

\* C3: two distinct discovered files that save_results has written are never
\* written to the same output path.
C3_DistinctFilesDistinctOutputs ==
  \A i, j \in 1..Len(result) :
    (i # j /\ result[i] = "ok" /\ result[j] = "ok") => PathOf(i) # PathOf(j)

Concurrency == IF parallel THEN max_workers ELSE 1
Running == {i \in 1..Len(result) : result[i] = "running"}
Holders(i) == {w \in 0..MaxWorkers : workers[w].phase # "idle" /\ workers[w].file = i}

\* C4: at every moment the number of files being processed is at most the
\* configured concurrency (max_workers in parallel mode, 1 in sequential
\* mode), and a file being processed is held by exactly one process from its
\* scan to the end of its write: a process holds no second file meanwhile.
C4_AtMostConcurrencyFilesInFlight ==
  /\ Cardinality(Running) <= Concurrency
  /\ \A i \in Running : Cardinality(Holders(i)) = 1
  /\ \A w \in 0..MaxWorkers :
       workers[w].phase # "idle" =>
         /\ workers[w].file \in Running
         /\ (IF parallel THEN w \in 1..max_workers ELSE w = 0)
         /\ (workers[w].off > 0 => workers[w].phase = "write")

\* The pool is saturated while a file is still waiting.
C4_Witness ==
  /\ parallel
  /\ Cardinality(Running) = max_workers
  /\ queue_head <= Len(faa_gz_files)
  /\ \E w \in 1..max_workers : workers[w].phase = "write" /\ workers[w].off > 0

\* C10: a batch in which a file failed ends with a non-zero status while the
\* output files of the successful files exist, and status 0 means that every
\* discovered file was processed successfully.
C10_ExitStatusReflectsFailures ==
  BatchEnded =>
    /\ (\E i \in 1..Len(result) : result[i] # "ok") =>
         /\ exit_status # Some(0)
         /\ \A j \in 1..Len(result) : result[j] = "ok" => PathOf(j) \in DOMAIN fs
    /\ exit_status = Some(0) => \A i \in 1..Len(result) : result[i] = "ok"

\* C11: once the main process has been interrupted, no file whose processing
\* has not started is started: no file goes from pending to running, in
\* sequential and in parallel mode.
C11_NoDispatchAfterStop ==
  [][stopped => \A i \in 1..Len(result) :
                  result[i] = "pending" => result'[i] # "running"]_vars

\* C12: at every point of a run, an output file that exists holds the
\* complete report of a discovered file written to that path, never a
\* truncated prefix of it.
C12_NoTruncatedArtifact ==
  \A p \in DOMAIN fs :
    \E i \in 1..Len(faa_gz_files) : PathOf(i) = p /\ fs[p] = LinesOf(i)

(***************************************************************************)
(* Claims about one scan (SpecScan).                                       *)
(***************************************************************************)
Examined == last # NoLast

\* C5: for each of the seven catalog patterns and every sequence with matches,
\* the entry's count is the number of matches and its total_lrr_length is the
\* sum of the lengths of the matched substrings: every match is exactly the
\* catalog's "length" wide.
C5_TotalIsSumOfMatchLengths ==
  (scanner \in {"tplrr", "ncbi"} /\ Examined /\ Len(last.pattern_matches) > 0) =>
    LET e == DictGet(lrr_data, last.id)
    IN  /\ e.count = Len(last.pattern_matches)
        /\ e.total_lrr_length = SumLen(last.pattern_matches)
        /\ \A k \in 1..Len(last.pattern_matches) :
             Len(last.pattern_matches[k]) = LRR_PATTERNS[pattern_name].length

SpecExample ==
  <<"X","X","C","X","X","L","X","X","I","X","L","X","X","X","L","X","X","I","X","X","X","A","F","Y","Y","Y","Y">>

\* C6: the match list of the record just examined is the leftmost
\* non-overlapping scan: every reported match is an occurrence and is reported
\* with its text, consecutive matches do not overlap, and every occurrence of
\* the pattern in the sequence either is reported or starts inside a reported
\* match that began before it.  For TpLRR, the spec's example sequence gives
\* the single 21-residue match, count 1, total 21, sequence length 27.
C6_FindallIsLeftmostNonOverlapping ==
  Examined =>
    LET toks == Compiled
        W == Len(toks)
        s == last.sequence
        st == last.starts
        ms == last.pattern_matches
    IN  /\ Len(ms) = Len(st)
        /\ \A k \in 1..Len(st) :
             /\ MatchesAt(toks, s, st[k])
             /\ ms[k] = SubSeq(s, st[k] + 1, st[k] + W)
        /\ \A k \in 1..(Len(st) - 1) : st[k + 1] >= st[k] + W
        /\ \A q \in 0..Len(s) :
             MatchesAt(toks, s, q) =>
               \E k \in 1..Len(st) : st[k] <= q /\ q < st[k] + W
        /\ (scanner \in {"tplrr", "ncbi"} /\ pattern_name = "TpLRR" /\ s = SpecExample) =>
             /\ ms = <<SubSeq(SpecExample, 3, 23)>>
             /\ DictGet(lrr_data, last.id) =
                  [count |-> 1, total_lrr_length |-> 21, total_length |-> 27,
                   patterns |-> SubSeq(SpecExample, 3, 23)]

\* An occurrence that overlaps a reported match was skipped.
C6_Witness ==
  /\ Examined
  /\ Len(last.starts) = 1
  /\ \E q \in (last.starts[1] + 1)..(last.starts[1] + Len(Compiled) - 1) :
       MatchesAt(Compiled, last.sequence, q)

KeepAll == scanner \in {"bspa", "revised"}
LastWith(id) ==
  CHOOSE k \in 1..processed_count :
    /\ records[k].id = id
    /\ \A j \in (k + 1)..processed_count : records[j].id # id

\* C7: when find_lrr_patterns has returned, for every id examined (its last
\* record deciding): with zero matches the id is absent under "keep only
\* matches" and present with count 0, total_lrr_length 0, the sequence's
\* length and an empty match list under "keep all"; with a match the id is
\* present under both.  Zero matches never end the scan with an error.
C7_ZeroMatchRetention ==
  (pc = "found") =>
    /\ error = ""
    /\ \A id \in {records[k].id : k \in 1..processed_count} :
         LET r == records[LastWith(id)]
             n == Len(findall(Compiled, r.seq))
         IN  IF n > 0 THEN id \in DictKeys(lrr_data)
             ELSE IF KeepAll
             THEN /\ id \in DictKeys(lrr_data)
                  /\ DictGet(lrr_data, id) =
                       [count |-> 0, total_lrr_length |-> 0,
                        total_length |-> Len(r.seq), patterns |-> <<>>]
             ELSE id \notin DictKeys(lrr_data)

RECURSIVE TplrrFindAll(_, _)
TplrrFindAll(recs, data) ==
  IF Len(recs) = 0 THEN data
  ELSE TplrrFindAll(Tail(recs),
                    TplrrExamine(data, recs[1].id, recs[1].seq,
                                 findall(Compiled, recs[1].seq), PatternLength))

Min(a, b) == IF a < b THEN a ELSE b

\* C8: with a cap, tplrr_finder's find_lrr_patterns examines
\* min(max_sequences, N) records and returns the result of scanning exactly
\* those; without a cap it examines all N.
C8_CapExaminesMinRecords ==
  (scanner = "tplrr" /\ pc = "found") =>
    LET n == IF max_sequences = None THEN Len(records)
             ELSE Min(max_sequences[1], Len(records))
    IN  /\ processed_count = n
        /\ lrr_data = TplrrFindAll(SubSeq(records, 1, n), <<>>)
        /\ error = ""

\* C9: an unknown pattern name ends the operation before any input file is
\* downloaded or opened and before any output is written.
C9_UnknownPatternFailsFirst ==
  error = "UnknownPattern" => (~downloaded /\ ~opened /\ output = None)


\* C13: when find_lrr_patterns has returned, the result has at most one
\* entry per id, and the entry of an id is the one computed from the last
\* record examined with that id, also when that record has no match and an
\* earlier record with the id had one; an id whose last record is retained
\* by the scanner has an entry.
C13_DuplicateIdsLastWins ==
  (pc = "found") =>
    /\ \A j, k \in 1..Len(lrr_data) : j # k => lrr_data[j].key # lrr_data[k].key
    /\ \A id \in {records[k].id : k \in 1..processed_count} :
         LET r == records[LastWith(id)]
             ms == findall(Compiled, r.seq)
         IN  /\ id \in DictKeys(lrr_data) =>
                  DictGet(lrr_data, id) = LrrEntry(ms, PatternLength, r.seq)
             /\ (KeepAll \/ Len(ms) > 0) => id \in DictKeys(lrr_data)

\* C17: bspa_lrr_analyzer's find_lrr_patterns with a caller-supplied pattern
\* whose matches are not 21 characters wide reports, for the record just
\* examined, a total_lrr_length equal to the sum of the lengths of its
\* matched substrings.
C17_CustomPatternTotalIsSumOfLengths ==
  (scanner = "bspa" /\ pattern_str # None /\ Examined) =>
    DictGet(lrr_data, last.id).total_lrr_length = SumLen(last.pattern_matches)


\* What json.load returns for the file json.dump(LRR_PATTERNS) writes.
CATALOG_VALUE == CatalogValue(LRR_PATTERNS, PATTERN_ORDER)

\* C14: what load_patterns_from_file returns for a file written by
\* save_patterns_to_file equals LRR_PATTERNS in every name and every field,
\* the written text parses back to the catalog, and LRR_PATTERNS keeps its
\* initial value through every save, load and get_compiled_pattern call.
C14_CatalogRoundTrip ==
  /\ catalog = LRR_PATTERNS
  /\ \A p \in saved : PyEq(json_load(json_files[p]), CATALOG_VALUE)
  /\ (loaded # None /\ loaded[1].saved) =>
       /\ PyEq(loaded[1].value, CATALOG_VALUE)
       /\ \A n \in PatternNames :
            LET e == DictGet(loaded[1].value.v, Spelling[n]).v
            IN  /\ DictGet(e, Spelling["pattern"]) = PyStr(LRR_PATTERNS[n].pattern)
                /\ DictGet(e, Spelling["length"]) = PyInt(LRR_PATTERNS[n].length)
                /\ DictGet(e, Spelling["description"]) =
                     PyStr(Spelling[LRR_PATTERNS[n].description])

\* A load of the saved default file in a session that also called
\* get_compiled_pattern.
C14_Witness ==
  /\ loaded # None
  /\ loaded[1].saved
  /\ loaded[1].from = DefaultPatternsPath
  /\ got # None


FirstWith(id) ==
  CHOOSE k \in 1..processed_count :
    /\ records[k].id = id
    /\ \A j \in 1..(k - 1) : records[j].id # id

\* C15: the report save_results writes has exactly one row per entry of the
\* result table it was given, in the table's order, which is the order in
\* which the ids were first met in the input file; a row carries the entry's
\* id, count, totals and Patterns string, and that string is the matches of
\* a record with that id joined by single spaces in order of occurrence.
C15_ReportRowsMatchTable ==
  (scanner \in {"tplrr", "bspa", "revised"} /\ output # None) =>
    LET rows == output[1].rows
    IN  /\ Len(rows) = Len(lrr_data)
        /\ \A i \in 1..Len(rows) :
             /\ i <= Len(lrr_data)
             /\ rows[i] = <<lrr_data[i].key, lrr_data[i].val.count,
                            lrr_data[i].val.total_lrr_length,
                            lrr_data[i].val.total_length, lrr_data[i].val.patterns>>
             /\ \E k \in 1..processed_count :
                  /\ records[k].id = rows[i][1]
                  /\ rows[i][5] = join(findall(Compiled, records[k].seq))
        /\ \A i, j \in 1..Len(rows) :
             i < j => FirstWith(rows[i][1]) < FirstWith(rows[j][1])


EmptyFile(i) == FileOf(i).kind = "ok" /\ Len(FileOf(i).records) = 0
HeaderOnly == << [kind |-> "header", name |-> pattern_name] >>

\* C16: a readable file with zero records never makes process_file return
\* None by itself; when process_file has returned for it, its output file
\* holds the header row and nothing else; and a batch of a well-formed file A
\* and an empty file B that runs to its end without a fault ends with both
\* files successful, A's output holding A's normal report.
C16_EmptyFileIsSuccess ==
  /\ \A i \in 1..Len(result) :
       EmptyFile(i) =>
         /\ (faults[i] = "none" => result[i] # "none")
         /\ (result[i] = "ok" /\ ~Shared(i)) =>
              (PathOf(i) \in DOMAIN fs /\ fs[PathOf(i)] = HeaderOnly)
  /\ (BatchEnded /\ NumFaults = 0 /\ Len(faa_gz_files) = 2) =>
       \A a, b \in 1..2 :
         (a # b /\ EmptyFile(b) /\ FileOf(a).kind = "ok" /\ ~EmptyFile(a)
          /\ PathOf(a) # PathOf(b)) =>
           /\ result[a] = "ok" /\ result[b] = "ok"
           /\ fs[PathOf(a)] = LinesOf(a)
           /\ fs[PathOf(b)] = HeaderOnly

\* A parallel batch of a well-formed file and an empty file has ended.
C16_Witness ==
  /\ BatchEnded
  /\ parallel
  /\ NumFaults = 0
  /\ Len(faa_gz_files) = 2
  /\ EmptyFile(2)
  /\ FileOf(1).kind = "ok" /\ ~EmptyFile(1)
  /\ result = <<"ok", "ok">>
  /\ Len(fs[PathOf(1)]) > 1
  /\ fs[PathOf(2)] = HeaderOnly

=============================================================================
